---- MODULE Spec2Model ----
(***************************************************************************)
(* A model of luminance's fixed-size GPU buffer (src/src/buffer.rs) and of *)
(* the framebuffer slot composition (src/luminance/src/framebuffer.rs).    *)
(*                                                                         *)
(* Three specifications share the module:                                  *)
(*   Spec    the Buffer resource driven by get / index / clear and by the  *)
(*           backend's write;                                              *)
(*   WholeSpec  the same Buffer driven by write_whole / read_whole / clear; *)
(*   FbSpec  Framebuffer::new driving ColorSlot / DepthSlot reification.   *)
(* Each one keeps the other's variables at their initial value.            *)
(***************************************************************************)
EXTENDS Integers, Sequences, FiniteSets, TLC

VARIABLES
  \* ---- buffer.rs ----
  tsize,      \* mem::size_of::<T>() of the buffer's element type
  checks,     \* build profile: TRUE = overflow checks on (debug), FALSE = wrapping (release)
  requested,  \* the `size: u32` argument given to Buffer::new
  size,       \* Buffer.size
  repr,       \* Buffer.repr, the backend's ABuffer: [bytes, data]
  alive,      \* FALSE once a panic has unwound the caller
  last,       \* the last operation, its arguments and what it returned
  \* ---- framebuffer.rs ----
  fb          \* state of one Framebuffer::new call (see FbInit)

bufvars == <<tsize, checks, requested, size, repr, alive, last>>
vars == <<tsize, checks, requested, size, repr, alive, last, fb>>

(***************************************************************************)
(* Bounds of the model.  Machine words are scaled down: u32 is U32Bits     *)
(* wide and usize is UsizeBits wide (UsizeBits >= U32Bits, as on the 32-   *)
(* and 64-bit targets), so that the products of buffer.rs can exceed the   *)
(* word as they can on the real widths.                                    *)
(***************************************************************************)
U32Bits == 5
UsizeBits == 5
MaxSize == 4
MaxElemSize == 2

U32Max == 2^U32Bits - 1
UsizeModulus == 2^UsizeBits

Values == {"a", "b"}
NoValue == "-"

ElemSizes == 1..MaxElemSize
Indices == 0..U32Max

\* Option<&T>, and the outcome of a call that unwinds
None == [kind |-> "None", val |-> NoValue]
Some(v) == [kind |-> "Some", val |-> v]
Panic == [kind |-> "Panic", val |-> NoValue]
\* Result<(), BufferError> and ()
Ok == [kind |-> "Ok", val |-> NoValue]
Overflow == [kind |-> "Overflow", val |-> NoValue]
TooManyValues == [kind |-> "TooManyValues", val |-> NoValue]
Unit == [kind |-> "Unit", val |-> NoValue]

\* `x as usize` of a u32
AsUsize(x) == x % UsizeModulus

\* `a * b` on usize: the mathematical product does not fit => the build
\* decides (panic with overflow checks, wrap-around without)
UsizeMul(a, b) ==
  [overflow |-> a * b >= UsizeModulus, val |-> (a * b) % UsizeModulus]

(***************************************************************************)
(* The backend (trait HasBuffer).  Only its signatures are in the source;  *)
(* its behaviour is the backend contract: offsets are element offsets, the *)
(* allocated region holds as many elements of T as fit in its bytes.       *)
(* HasBuffer::new is told a byte count only, so the element count is       *)
(* defined for element types of at least one byte (ElemSizes).             *)
(***************************************************************************)
Capacity(r, sz) == r.bytes \div sz

BackendNew(bytes) == [bytes |-> bytes, data |-> <<>>]

BackendRead(r, sz, offset) ==
  IF offset < Capacity(r, sz) THEN Some(r.data[offset + 1]) ELSE None

BackendWrite(r, sz, x, offset) ==
  IF offset >= Capacity(r, sz)
  THEN [ret |-> Overflow, repr |-> r]
  ELSE [ret |-> Ok, repr |-> [r EXCEPT !.data[offset + 1] = x]]

\* fn write_whole<T>(buffer, values: &Vec<T>);  -- the signature has no return
\* value, so the only thing the caller gets back is ()
BackendWriteWhole(r, sz, values) ==
  IF Len(values) > Capacity(r, sz)
  THEN [ret |-> Unit, repr |-> r]
  ELSE [ret |-> Unit,
        repr |-> [r EXCEPT !.data =
                    [k \in 1..Len(r.data) |->
                       IF k <= Len(values) THEN values[k] ELSE r.data[k]]]]

BackendReadWhole(r) == r.data

(***************************************************************************)
(* Buffer                                                                  *)
(***************************************************************************)
\* Buffer::new: let size = size as usize; C::new(size * size_of::<T>())
BufferNew(n, sz, chk) ==
  LET m == UsizeMul(AsUsize(n), sz)
  IN  IF m.overflow /\ chk
      THEN [ok |-> FALSE, size |-> 0, bytes |-> 0]
      ELSE [ok |-> TRUE, size |-> AsUsize(n), bytes |-> BackendNew(m.val).bytes]

\* the offset Buffer::get hands to C::read: i as usize * size_of::<T>()
GetOffset(i, sz) == UsizeMul(AsUsize(i), sz)

\* Buffer::get
BufferGet(r, sz, chk, i) ==
  LET m == GetOffset(i, sz)
  IN  IF m.overflow /\ chk THEN Panic ELSE BackendRead(r, sz, m.val)

\* a variant of index that hands back the absent value instead of unwrapping
BufferIndexLenient(r, sz, chk, i) == BufferGet(r, sz, chk, i)

\* Index<u32>::index: self.get(i).unwrap()
BufferIndex(r, sz, chk, i) ==
  LET g == BufferGet(r, sz, chk, i)
  IN  IF g.kind = "Some" THEN g ELSE Panic

\* the vector Buffer::clear builds: vec![x; self.size]
ClearValues(n, x) == [k \in 1..n |-> x]

\* Buffer::clear
BufferClear(r, sz, n, x) == BackendWriteWhole(r, sz, ClearValues(n, x))

NoFb == [pc |-> "off"]

Op(op, i, x, vals, off, ret, old) ==
  [op |-> op, i |-> i, x |-> x, vals |-> vals, off |-> off, ret |-> ret, old |-> old]

\* The state after Buffer::new(_, requested) for an element type of tsize
\* bytes; the freshly allocated region holds arbitrary values.
Init ==
  /\ tsize \in ElemSizes
  /\ checks \in BOOLEAN
  /\ requested \in 0..MaxSize
  /\ LET b == BufferNew(requested, tsize, checks)
     IN  /\ alive = b.ok
         /\ size = b.size
         /\ \E d \in [1..(b.bytes \div tsize) -> Values] :
              repr = [bytes |-> b.bytes, data |-> d]
         /\ last = Op("new", requested, NoValue, <<>>, b.bytes,
                      IF b.ok THEN Unit ELSE Panic, <<>>)
  /\ fb = NoFb

Get(i) ==
  /\ alive
  /\ LET g == BufferGet(repr, tsize, checks, i)
     IN  /\ last' = Op("get", i, NoValue, <<>>, GetOffset(i, tsize).val, g, repr.data)
         /\ alive' = (g.kind # "Panic")
  /\ UNCHANGED <<tsize, checks, requested, size, repr, fb>>

Index(i) ==
  /\ alive
  /\ LET g == BufferIndex(repr, tsize, checks, i)
     IN  /\ last' = Op("index", i, NoValue, <<>>, GetOffset(i, tsize).val, g, repr.data)
         /\ alive' = (g.kind # "Panic")
  /\ UNCHANGED <<tsize, checks, requested, size, repr, fb>>

\* a variant of clear that re-derives the element count from what it wrote
ClearResizing(x) ==
  /\ alive
  /\ LET w == BufferClear(repr, tsize, size, x)
     IN  /\ repr' = w.repr
         /\ size' = w.repr.bytes
         /\ last' = Op("clear", 0, x, ClearValues(size, x), 0, w.ret, repr.data)
  /\ UNCHANGED <<tsize, checks, requested, alive, fb>>

Clear(x) ==
  /\ alive
  /\ LET w == BufferClear(repr, tsize, size, x)
     IN  /\ repr' = w.repr
         /\ last' = Op("clear", 0, x, ClearValues(size, x), 0, w.ret, repr.data)
  /\ UNCHANGED <<tsize, checks, requested, size, alive, fb>>

Write(x, offset) ==
  /\ alive
  /\ LET w == BackendWrite(repr, tsize, x, offset)
     IN  /\ repr' = w.repr
         /\ last' = Op("write", offset, x, <<>>, offset, w.ret, repr.data)
  /\ UNCHANGED <<tsize, checks, requested, size, alive, fb>>

WriteWhole(values) ==
  /\ alive
  /\ LET w == BackendWriteWhole(repr, tsize, values)
     IN  /\ repr' = w.repr
         /\ last' = Op("write_whole", 0, NoValue, values, 0, w.ret, repr.data)
  /\ UNCHANGED <<tsize, checks, requested, size, alive, fb>>

ReadWhole ==
  /\ alive
  /\ last' = Op("read_whole", 0, NoValue, BackendReadWhole(repr), 0, Unit, repr.data)
  /\ UNCHANGED <<tsize, checks, requested, size, repr, alive, fb>>

\* what the callers of the model hand in
ValueVecs == UNION {[1..n -> Values] : n \in 0..(MaxSize + 1)}
WriteOffsets == 0..(MaxSize + 1)

\* element-wise use of a buffer: get, buffer[i], clear, and the backend's write
Next ==
  \/ \E i \in Indices : Get(i)
  \/ \E i \in Indices : Index(i)
  \/ \E x \in Values : Clear(x)
  \/ \E x \in Values, o \in WriteOffsets : Write(x, o)

Spec == Init /\ [][Next]_vars

\* bulk use of a buffer: write_whole, read_whole, clear
WholeNext ==
  \/ \E v \in ValueVecs : WriteWhole(v)
  \/ ReadWhole
  \/ \E x \in Values : Clear(x)

WholeSpec == Init /\ [][WholeNext]_vars

(***************************************************************************)
(* Claims about Buffer                                                     *)
(***************************************************************************)

\* C1: for a buffer of size N, get(i) returns a value for every i < N and
\* None for every i >= N, whatever the element byte size.
C1_GetTotalOnRange ==
  last.op = "get" =>
    /\ last.i < size => last.ret.kind = "Some"
    /\ last.i >= size => last.ret = None

\* C2: write(x, offset) returns Overflow iff offset >= N; otherwise it
\* succeeds and a following get(offset) returns x.
C2_WriteThenGet ==
  last.op = "write" =>
    /\ last.ret = Overflow <=> last.i >= size
    /\ last.i < size =>
         /\ last.ret = Ok
         /\ BufferGet(repr, tsize, checks, last.i) = Some(last.x)

\* C3: write_whole with more than N values reports TooManyValues to the
\* caller and leaves the contents unchanged; with at most N values it
\* succeeds and a following read_whole matches the written values.
C3_WriteWholeReports ==
  last.op = "write_whole" =>
    IF Len(last.vals) > size
    THEN last.ret = TooManyValues /\ repr.data = last.old
    ELSE /\ last.ret.kind \in {"Ok", "Unit"}
         /\ SubSeq(BackendReadWhole(repr), 1, Len(last.vals)) = last.vals

\* C4: after clear(x), get(i) = x for every i < N; clear issues one
\* write_whole of exactly N copies of x, never more than the declared size.
C4_ClearThenGet ==
  last.op = "clear" =>
    /\ last.vals = [k \in 1..size |-> last.x]
    /\ Len(last.vals) <= size
    /\ last.ret # TooManyValues
    /\ \A i \in 0..(size - 1) : BufferGet(repr, tsize, checks, i) = Some(last.x)

\* C5: buffer[i] returns the element get(i) returns whenever get(i) is
\* present and fails fatally exactly when it is not; for a buffer built with
\* size 4, buffer[10] is fatal while get(10) is the absent value and leaves
\* the buffer usable.
C5_IndexIsUnwrappedGet ==
  /\ last.op = "index" =>
       LET g == BufferGet(repr, tsize, checks, last.i)
       IN  /\ g.kind = "Some" => last.ret = g /\ alive
           /\ g.kind # "Some" <=> last.ret = Panic
           /\ last.ret = Panic => ~alive
  /\ (last.op = "index" /\ requested = 4 /\ last.i = 10) => last.ret = Panic
  /\ (last.op = "get" /\ requested = 4 /\ last.i = 10) =>
       last.ret = None /\ alive /\ repr.data = last.old

C5_Witness ==
  /\ last.op = "index" /\ requested = 4 /\ last.i = 10
  /\ last.ret = Panic /\ ~alive
  /\ BufferGet(repr, tsize, checks, 10) = None
  /\ BufferGet(repr, tsize, checks, 3).kind = "Some"

\* C9: the element count is fixed at construction: after any sequence of
\* get, indexed access and clear calls the size field still equals N.
C9_SizeFixed ==
  last.op \in {"get", "index", "clear", "write"} => size = requested

C9_Witness ==
  last.op = "clear" /\ requested = MaxSize /\ size = MaxSize /\ repr.data # last.old

\* C10: new requests exactly size * size_of(T) bytes and get(i) passes the
\* offset i * size_of(T), both without wrap-around, so the offset passed lies
\* inside the requested byte range iff i < size.
C10_SameByteUnit ==
  /\ repr.bytes = size * tsize
  /\ last.op = "get" =>
       /\ last.ret.kind # "Panic"
       /\ last.off = last.i * tsize
       /\ last.off < repr.bytes <=> last.i < size

(***************************************************************************)
(* framebuffer.rs: ColorSlot / DepthSlot and Framebuffer::new              *)
(***************************************************************************)
MaxArity == 16

ColorFormats == {"RGBA8", "R16F"}
DepthFormats == {"Depth32F"}
MipmapChoices == {0, 1}
FbSize == "256x256"

\* the identifiers of the invocation impl_color_slot_tuples!(PF, PE, ..., P0)
TypeParams ==
  <<"PF", "PE", "PD", "PC", "PB", "PA", "P9", "P8",
    "P7", "P6", "P5", "P4", "P3", "P2", "P1", "P0">>

\* macro impl_color_slot_tuples: the identifier lists impl_color_slot_tuple is
\* invoked with (stop at pairs; otherwise the list without its first
\* identifier, then the current list)
RECURSIVE ImplColorSlotTuples(_)
ImplColorSlotTuples(ps) ==
  IF Len(ps) = 2
  THEN {ps}
  ELSE ImplColorSlotTuples(Tail(ps)) \cup {ps}

TupleImpls == ImplColorSlotTuples(TypeParams)

\* the impl that `(F1, .., Fn)` selects, and the type each of its identifiers
\* is bound to
TupleImplFor(colors) == CHOOSE ps \in TupleImpls : Len(ps) = Len(colors)
Binding(ps, colors) ==
  [p \in {ps[k] : k \in 1..Len(ps)} |->
     colors[CHOOSE k \in 1..Len(ps) : ps[k] = p]]

\* the repetition $( ... $pf ... ),* of impl_color_slot_tuple: one item per
\* identifier, in the order of the identifier list
Repeat(ps, bind) == [k \in 1..Len(ps) |-> bind[ps[k]]]

\* const COLOR_FORMATS of the three ColorSlot impls
COLOR_FORMATS(colors) ==
  IF Len(colors) = 0 THEN <<>>
  ELSE IF Len(colors) = 1 THEN <<colors[1]>>
  ELSE LET ps == TupleImplFor(colors) IN Repeat(ps, Binding(ps, colors))

\* a variant evaluating the tuple expression right to left
TupleReifyOrderReversed(colors) ==
  LET ps == TupleImplFor(colors)
      fs == Repeat(ps, Binding(ps, colors))
  IN  [k \in 1..Len(fs) |-> fs[Len(fs) + 1 - k]]

\* the formats reify_textures of the tuple impl calls reify_texture for, in
\* the evaluation order of the tuple expression (left to right)
TupleReifyOrder(colors) ==
  LET ps == TupleImplFor(colors) IN Repeat(ps, Binding(ps, colors))

\* const DEPTH_FORMAT of the two DepthSlot impls
DEPTH_FORMAT(depth) == IF Len(depth) = 0 THEN "None" ELSE depth[1]

\* ReifyTexture::reify_texture, the backend's allocation of one texture: it
\* returns a texture (the signature has no error path) and records a failed
\* allocation in the texture state
ReifyTexture(f, format) ==
  LET c == Len(f.calls) + 1
      good == c \notin f.failing
  IN  [tex |-> [format |-> format, id |-> c, ok |-> good],
       calls |-> Append(f.calls, [format |-> format, size |-> FbSize, mipmaps |-> f.mipmaps]),
       state |-> [err |-> f.state.err \/ ~good]]

\* the slot types Framebuffer::new is instantiated with
DistinguishedTuples ==
  UNION {{[k \in 1..n |-> IF k = p THEN f ELSE g] :
            n \in 2..MaxArity, p \in 1..MaxArity, g \in ColorFormats \ {f}} :
         f \in ColorFormats}
ColorSlots == {<<>>} \cup {<<f>> : f \in ColorFormats} \cup DistinguishedTuples
DepthSlots == {<<>>} \cup {<<f>> : f \in DepthFormats}
\* the allocations the backend fails: none, one of them, or every one from
\* some call on (resources exhausted)
CallNumbers == 1..(MaxArity + 1)
FailureSets ==
  {{}} \cup {{c} : c \in CallNumbers} \cup {c..(MaxArity + 1) : c \in CallNumbers}

NoBuffer == Op("none", 0, NoValue, <<>>, 0, Unit, <<>>)

\* Framebuffer::new(ctx, size, mipmaps) has just been called
FbInit ==
  /\ tsize = 1 /\ checks = FALSE /\ requested = 0 /\ size = 0
  /\ repr = [bytes |-> 0, data |-> <<>>] /\ alive = FALSE /\ last = NoBuffer
  /\ \E colors \in ColorSlots, depth \in DepthSlots,
        mipmaps \in MipmapChoices, failing \in FailureSets :
       fb = [pc |-> "color", colors |-> colors, depth |-> depth,
             mipmaps |-> mipmaps, failing |-> failing,
             calls |-> <<>>, state |-> [err |-> FALSE],
             before |-> [calls |-> <<>>, state |-> [err |-> FALSE]],
             ctex |-> <<>>, dtex |-> <<>>,
             result |-> [kind |-> "pending", color |-> <<>>, depth |-> <<>>]]

\* a variant of the empty color slot that still asks the backend for a texture
ReifyColorEmptyAllocating ==
  /\ fb.pc = "color" /\ Len(fb.colors) = 0
  /\ LET r == ReifyTexture(fb, "RGBA8")
     IN  fb' = [fb EXCEPT !.pc = "depth", !.ctex = <<>>,
                          !.calls = r.calls, !.state = r.state,
                          !.before = [calls |-> r.calls, state |-> r.state]]
  /\ UNCHANGED bufvars

\* <() as ColorSlot>::reify_textures
ReifyColorEmpty ==
  /\ fb.pc = "color" /\ Len(fb.colors) = 0
  /\ fb' = [fb EXCEPT !.pc = "depth", !.ctex = <<>>,
                      !.before = [calls |-> fb.calls, state |-> fb.state]]
  /\ UNCHANGED bufvars

\* <P as ColorSlot>::reify_textures
ReifyColorSingle ==
  /\ fb.pc = "color" /\ Len(fb.colors) = 1
  /\ LET r == ReifyTexture(fb, fb.colors[1])
     IN  fb' = [fb EXCEPT !.pc = "depth", !.ctex = <<r.tex>>,
                          !.calls = r.calls, !.state = r.state,
                          !.before = [calls |-> r.calls, state |-> r.state]]
  /\ UNCHANGED bufvars

\* a variant of the tuple impl whose expansion drops the last identifier
ReifyColorTupleShort ==
  /\ fb.pc = "color" /\ Len(fb.colors) >= 2
  /\ LET order == TupleReifyOrder(fb.colors)
         r == ReifyTexture(fb, order[Len(fb.ctex) + 1])
         done == Len(fb.ctex) + 1 = Len(order) - 1
     IN  fb' = [fb EXCEPT !.pc = IF done THEN "depth" ELSE "color",
                          !.ctex = Append(fb.ctex, r.tex),
                          !.calls = r.calls, !.state = r.state,
                          !.before = [calls |-> r.calls, state |-> r.state]]
  /\ UNCHANGED bufvars

\* <(F1, .., Fn) as ColorSlot>::reify_textures, one tuple element at a time
ReifyColorTuple ==
  /\ fb.pc = "color" /\ Len(fb.colors) >= 2
  /\ LET order == TupleReifyOrder(fb.colors)
         r == ReifyTexture(fb, order[Len(fb.ctex) + 1])
         done == Len(fb.ctex) + 1 = Len(order)
     IN  fb' = [fb EXCEPT !.pc = IF done THEN "depth" ELSE "color",
                          !.ctex = Append(fb.ctex, r.tex),
                          !.calls = r.calls, !.state = r.state,
                          !.before = [calls |-> r.calls, state |-> r.state]]
  /\ UNCHANGED bufvars

\* <() as DepthSlot>::reify_texture
ReifyDepthEmpty ==
  /\ fb.pc = "depth" /\ Len(fb.depth) = 0
  /\ fb' = [fb EXCEPT !.pc = "finish", !.dtex = <<>>]
  /\ UNCHANGED bufvars

\* <P as DepthSlot>::reify_texture
ReifyDepthSingle ==
  /\ fb.pc = "depth" /\ Len(fb.depth) = 1
  /\ LET r == ReifyTexture(fb, fb.depth[1])
     IN  fb' = [fb EXCEPT !.pc = "finish", !.dtex = <<r.tex>>,
                          !.calls = r.calls, !.state = r.state]
  /\ UNCHANGED bufvars

\* Framebuffer::new returns: the backend error if an allocation failed,
\* the framebuffer with its color and depth textures otherwise
FramebufferNewReturn ==
  /\ fb.pc = "finish"
  /\ fb' = [fb EXCEPT !.pc = "done",
                      !.result = IF fb.state.err
                                 THEN [kind |-> "Err", color |-> <<>>, depth |-> <<>>]
                                 ELSE [kind |-> "Ok", color |-> fb.ctex, depth |-> fb.dtex]]
  /\ UNCHANGED bufvars

FbNext ==
  \/ ReifyColorEmpty
  \/ ReifyColorSingle
  \/ ReifyColorTuple
  \/ ReifyDepthEmpty
  \/ ReifyDepthSingle
  \/ FramebufferNewReturn

FbSpec == FbInit /\ [][FbNext]_vars

(***************************************************************************)
(* Claims about the framebuffer slots                                      *)
(***************************************************************************)
ColorDone == fb.pc \in {"depth", "finish", "done"}

\* C6: for a tuple ColorSlot of formats F1..Fn (2 <= n <= 16) COLOR_FORMATS
\* is <<F1, .., Fn>> in that order, and reify_textures calls the reification
\* capability once per format in list order, so that the i-th texture of the
\* returned tuple is the one reified for Fi.
C6_TupleOrder ==
  Len(fb.colors) >= 2 =>
    /\ Cardinality({ps \in TupleImpls : Len(ps) = Len(fb.colors)}) = 1
    /\ COLOR_FORMATS(fb.colors) = fb.colors
    /\ Len(fb.ctex) <= Len(fb.colors)
    /\ \A i \in 1..Len(fb.ctex) :
         /\ fb.ctex[i].format = fb.colors[i]
         /\ fb.ctex[i].id = i
         /\ fb.calls[i].format = fb.colors[i]
    /\ fb.pc = "color" => Len(fb.calls) = Len(fb.ctex)
    /\ ColorDone =>
         /\ Len(fb.ctex) = Len(fb.colors)
         /\ Len(fb.before.calls) = Len(fb.colors)

C6_Witness ==
  /\ fb.pc = "depth"
  /\ Len(fb.colors) = MaxArity
  /\ fb.colors[1] # fb.colors[MaxArity]
  /\ fb.ctex[1].format = fb.colors[1]
  /\ fb.ctex[MaxArity].format = fb.colors[MaxArity]
  /\ fb.ctex[MaxArity].id = MaxArity

\* C7: reifying an Empty ColorSlot or an Empty DepthSlot makes no call to
\* the reification capability, leaves the context and the texture state as
\* they were, returns the empty result, and publishes an empty COLOR_FORMATS
\* list / a None DEPTH_FORMAT.
C7_EmptySlots ==
  /\ Len(fb.colors) = 0 =>
       /\ COLOR_FORMATS(fb.colors) = <<>>
       /\ ColorDone =>
            /\ fb.ctex = <<>>
            /\ fb.before.calls = <<>>
            /\ fb.before.state = [err |-> FALSE]
  /\ Len(fb.depth) = 0 =>
       /\ DEPTH_FORMAT(fb.depth) = "None"
       /\ fb.pc \in {"finish", "done"} =>
            /\ fb.dtex = <<>>
            /\ fb.calls = fb.before.calls
            /\ fb.state = fb.before.state

C7_Witness ==
  /\ fb.pc = "done"
  /\ fb.colors = <<>> /\ fb.depth = <<>>
  /\ fb.calls = <<>> /\ fb.failing # {}
  /\ fb.result = [kind |-> "Ok", color |-> <<>>, depth |-> <<>>]

\* C8: Framebuffer::new is all-or-nothing: if the allocation of any color or
\* depth attachment fails it returns the backend error and exposes no
\* framebuffer; otherwise every attachment of the color slot and of the
\* depth slot has been created.
AttachmentCount == Len(fb.colors) + Len(fb.depth)
AnyAllocationFails == fb.failing \cap (1..AttachmentCount) # {}

====
